---- MODULE Spec2Model ----
(***************************************************************************)
(* A model of src/agents/pi-tools.after-tool-call.ts: the after_tool_call  *)
(* instrumentation of agent tools.  wrapToolWithAfterToolCallHook wraps a  *)
(* tool's execute; when a wrapped call settles, runAfterToolCallHook       *)
(* dispatches one event to the process-wide hook runner, fire-and-forget.  *)
(*                                                                         *)
(* JavaScript values are records [t, v]: t is the kind of value and v a    *)
(* sequence of strings (the tokens of a string or of a message, the        *)
(* characters of a tool name, the identity of an object).                  *)
(***************************************************************************)
EXTENDS Integers, Sequences, FiniteSets

\* ------------------------------------------------------------------ bounds

\* The number of call slots (tool + one call of it).
MaxCalls == 2
\* Date.now() ranges over 0..MaxClock.
MaxClock == 1

CallIds == 1..MaxCalls

\* -------------------------------------------------------- JavaScript values

Undefined == [t |-> "undefined", v |-> <<>>]
Null == [t |-> "null", v |-> <<>>]
Str(s) == [t |-> "string", v |-> s]
Num(n) == [t |-> "number", v |-> <<n>>]
\* A plain object, known by its identity.
Obj(id) == [t |-> "object", v |-> <<id>>]
Arr(id) == [t |-> "array", v |-> <<id>>]
\* An Error instance: name "Error", message msg.
Err(msg) == [t |-> "error", v |-> msg]
\* A plain (non-Error) object with a message property: { message: msg }.
MsgObj(msg) == [t |-> "msgobject", v |-> msg]

\* typeof value
TypeOf(value) ==
  CASE value.t \in {"object", "array", "null", "error", "msgobject"} -> "object"
    [] OTHER -> value.t

\* Array.isArray(value)
IsArray(value) == value.t = "array"

\* ToBoolean(value), as `||` and `?:` apply it.
Truthy(value) ==
  CASE value.t \in {"undefined", "null"} -> FALSE
    [] value.t = "string" -> value.v # <<>>
    [] value.t = "number" -> value.v # <<"0">>
    [] OTHER -> TRUE

\* String(value): Error.prototype.toString gives name + ": " + message (the
\* name alone when the message is empty); Object.prototype.toString gives
\* "[object Object]"; a string is itself.
String(value) ==
  CASE value.t = "error" ->
         IF value.v = <<>> THEN <<"Error">> ELSE <<"Error:">> \o value.v
    [] value.t = "string" -> value.v
    [] value.t \in {"object", "msgobject"} -> <<"[object", "Object]">>
    [] value.t = "undefined" -> <<"undefined">>
    [] value.t = "null" -> <<"null">>
    [] OTHER -> value.v

\* haystack.includes(needle): needle occurs in haystack as a contiguous run.
Includes(haystack, needle) ==
  \E i \in 0..Len(haystack) :
    /\ i + Len(needle) <= Len(haystack)
    /\ \A j \in 1..Len(needle) : haystack[i + j] = needle[j]

\* The two markers of a before_tool_call block (line 81).
BlockedByPluginHook == <<"blocked", "by", "plugin", "hook">>
ToolCallBlocked == <<"Tool", "call", "blocked">>

\* ------------------------------------------------------------ pure helpers

\* isPlainObject without the Array.isArray test.
isPlainObjectOrArray(value) == TypeOf(value) = "object" /\ value # Null

\* isPlainObject (lines 14-16)
isPlainObject(value) ==
  TypeOf(value) = "object" /\ value # Null /\ ~IsArray(value)

\* A fresh empty object literal {} (line 33).
EmptyMapping == Obj("{}")

\* String.prototype.toLowerCase on one character.
LowerChar(ch) ==
  CASE ch = "R" -> "r" [] ch = "E" -> "e" [] ch = "A" -> "a" [] ch = "D" -> "d"
    [] ch = "X" -> "x" [] ch = "C" -> "c" [] ch = "T" -> "t" [] ch = "O" -> "o"
    [] ch = "L" -> "l"
    [] OTHER -> ch

ToLowerCase(s) == [i \in 1..Len(s) |-> LowerChar(s[i])]

\* normalizeToolName of ./tool-policy.js: the name lower-cased.
normalizeToolName(name) == ToLowerCase(name)

\* The fallback name "tool" (lines 32 and 65).
FallbackName == Str(<<"t", "o", "o", "l">>)

\* a ?? b: only undefined and null fall back, an empty string does not.
OrElseNullish(a, b) == IF a \in {Undefined, Null} THEN b ELSE a

\* a || b
OrElse(a, b) == IF Truthy(a) THEN a ELSE b

\* ------------------------------------------------------------------ inputs

\* HookContext (lines 7-10); the ctx parameter is optional.
NoCtx == [present |-> FALSE, agentId |-> Undefined, sessionKey |-> Undefined]
Ctx(agentId, sessionKey) ==
  [present |-> TRUE, agentId |-> agentId, sessionKey |-> sessionKey]
Contexts ==
  { NoCtx,
    Ctx(Str(<<"main">>), Str(<<"main">>)),
    Ctx(Undefined, Str(<<"s1">>)) }

\* A tool's execute: absent, the tool's own, or the wrapper's closure over
\* toolName and ctx (lines 65-68).
NoExecute == [fn |-> "none", toolName |-> Undefined, ctx |-> NoCtx]
OriginalExecute == [fn |-> "original", toolName |-> Undefined, ctx |-> NoCtx]
WrapperExecute(toolName, ctx) ==
  [fn |-> "afterToolCallWrapper", toolName |-> toolName, ctx |-> ctx]

ToolNames ==
  { Str(<<"R", "e", "A", "d">>), Str(<<"r", "e", "a", "d">>),
    Str(<<"e", "x", "e", "c">>), Str(<<>>), Undefined }

\* AnyAgentTool: an object (id is its identity) with a name, other
\* properties (label) and an optional execute.
Tools ==
  [id : {"tool"}, name : ToolNames, label : {"Label"},
   execute : {NoExecute, OriginalExecute}]
NoTool ==
  [id |-> "", name |-> Undefined, label |-> "", execute |-> NoExecute]

\* The arguments of one call of execute: (toolCallId, params, signal, onUpdate).
ParamValues ==
  { Obj("p1"), Arr("a1"), Str(<<"not-an-object">>), Num("7"), Null, Undefined }
CallArgs ==
  [toolCallId : {Str(<<"call-1">>)}, params : ParamValues,
   signal : {Undefined}, onUpdate : {Undefined}]
  \cup
  [toolCallId : {Str(<<>>)}, params : {Obj("p1")},
   signal : {Obj("signal")}, onUpdate : {Obj("onUpdate")}]

\* What the underlying execute may resolve to.
ToolResults == { Obj("r1"), Undefined }
\* What the underlying execute may throw or reject with.
ToolErrors ==
  { Err(<<"command", "failed">>),
    Err(<<"Tool", "call", "blocked", "by", "plugin", "hook">>),
    Err(<<"denied:", "blocked", "by", "plugin", "hook">>),
    Str(<<"Tool", "call", "blocked">>),
    Str(<<"boom">>),
    MsgObj(<<"object", "failed">>) }

\* getGlobalHookRunner(): no runner, or a runner whose
\* hasHooks("after_tool_call") returns false, returns true or throws.
NoRunner == [present |-> FALSE, hasHooks |-> "false"]
HookRunners ==
  { NoRunner } \cup [present : {TRUE}, hasHooks : {"false", "true", "throws"}]
HasHooksError == Err(<<"hasHooks", "boom">>)

\* What runAfterToolCall does when invoked: returns a promise, throws, or
\* returns something that is no promise.
HookBehaviours == { "promise", "throws", "nonpromise" }
HookError == Err(<<"hook", "boom">>)
CatchTypeError == Err(<<"Cannot", "read", "properties", "of", "undefined">>)

\* ------------------------------------------------------------------- state

VARIABLES
  now,         \* Date.now()
  hookRunner,  \* what getGlobalHookRunner() returns
  tool,        \* tool[c]: the tool given to wrapToolWithAfterToolCallHook
  wrapped,     \* wrapped[c]: the tool wrapToolWithAfterToolCallHook returned
  pc,          \* pc[c]: new, wrapped, awaiting, settled, done
  call,        \* call[c]: arguments and locals of the wrapped execute
  underlying,  \* underlying[c]: calls of the tool's own execute, its promise
  hook,        \* hook[c]: invocations of runAfterToolCall, its promise; the
               \* hook runner in place when the call finished, and whether
               \* runAfterToolCallHook ran
  outcome,     \* outcome[c]: the promise the wrapped execute returned
  warnLog,     \* warnLog[c]: log.warn messages
  wrapArgs,    \* wrapArgs[c]: the arguments wrapToolWithAfterToolCallHook
               \* was called with
  hooksAtCall  \* hooksAtCall[c]: whether a runner with after_tool_call hooks
               \* was in place when the wrapped execute was called

vars ==
  <<now, hookRunner, tool, wrapped, pc, call, underlying, hook, outcome, warnLog,
    wrapArgs, hooksAtCall>>

\* A promise: pending, or settled with a value.
NoPromise == [state |-> "none", value |-> Undefined]
Pending == [state |-> "pending", value |-> Undefined]
Fulfilled(value) == [state |-> "fulfilled", value |-> value]
Rejected(value) == [state |-> "rejected", value |-> value]

NoArgs ==
  [toolCallId |-> Undefined, params |-> Undefined,
   signal |-> Undefined, onUpdate |-> Undefined]

\* The locals of the wrapped execute as declared at lines 69-72.
Locals(args, startMs) ==
  [args |-> args, startMs |-> startMs,
   result |-> Undefined, error |-> Undefined, blocked |-> FALSE]

NoHook ==
  [calls |-> <<>>, promise |-> NoPromise, runner |-> NoRunner, ran |-> FALSE]

Init ==
  /\ now = 0
  /\ hookRunner \in HookRunners
  /\ tool = [c \in CallIds |-> NoTool]
  /\ wrapped = [c \in CallIds |-> NoTool]
  /\ pc = [c \in CallIds |-> "new"]
  /\ call = [c \in CallIds |-> Locals(NoArgs, 0)]
  /\ underlying = [c \in CallIds |-> [calls |-> <<>>, promise |-> NoPromise]]
  /\ hook = [c \in CallIds |-> NoHook]
  /\ outcome = [c \in CallIds |-> NoPromise]
  /\ warnLog = [c \in CallIds |-> <<>>]
  /\ wrapArgs = [c \in CallIds |-> [tool |-> NoTool, ctx |-> NoCtx]]
  /\ hooksAtCall = [c \in CallIds |-> FALSE]

\* ------------------------------------------- wrapToolWithAfterToolCallHook

\* A wrapper put around every tool, with or without an execute.
wrapToolAlways(t, ctx) ==
  [t EXCEPT !.id = "wrapper",
            !.execute = WrapperExecute(OrElse(t.name, FallbackName), ctx)]

\* Lines 60-67: a tool without execute is returned as it is; otherwise a new
\* object with the tool's properties and the wrapper as execute.
wrapToolWithAfterToolCallHook(t, ctx) ==
  IF t.execute = NoExecute
    THEN t
    ELSE [t EXCEPT !.id = "wrapper",
                   !.execute = WrapperExecute(OrElse(t.name, FallbackName), ctx)]

\* ---------------------------------------------------- runAfterToolCallHook

\* Line 28: !hookRunner?.hasHooks("after_tool_call")
HasNoHooks(runner) == ~runner.present \/ runner.hasHooks = "false"
\* hookRunner.hasHooks(...) without the `?.`: an absent runner makes the
\* call throw a TypeError.
HasHooksThrowsOrAbsent(runner) ==
  ~runner.present \/ runner.hasHooks = "throws"
HasHooksThrows(runner) == runner.present /\ runner.hasHooks = "throws"

\* The tool name as given, not normalised.
EventToolNameAsGiven(toolName) == OrElse(toolName, FallbackName).v

\* Line 32
EventToolName(toolName) == normalizeToolName(OrElse(toolName, FallbackName).v)

\* Line 33
NormalizedParams(params) ==
  IF isPlainObject(params) THEN params ELSE EmptyMapping

\* Lines 37-43: the event handed to runAfterToolCall.
AfterToolCallEvent(args) ==
  [toolName |-> EventToolName(args.toolName),
   params |-> NormalizedParams(args.params),
   result |-> args.result,
   error |-> args.error,
   durationMs |-> args.durationMs]

\* A context that carries the tool name as it was given, not normalised.
AfterToolCallContextRawName(args) ==
  [toolName |-> OrElse(args.toolName, FallbackName).v,
   agentId |-> IF args.ctx.present THEN args.ctx.agentId ELSE Undefined,
   sessionKey |-> IF args.ctx.present THEN args.ctx.sessionKey ELSE Undefined]

\* Lines 44-48: the context handed to runAfterToolCall.
AfterToolCallContext(args) ==
  [toolName |-> EventToolName(args.toolName),
   agentId |-> IF args.ctx.present THEN args.ctx.agentId ELSE Undefined,
   sessionKey |-> IF args.ctx.present THEN args.ctx.sessionKey ELSE Undefined]

\* Lines 51-52 and 55-56: the warning logged for a failed dispatch.
HookWarning(args, err) ==
  [tool |-> EventToolName(args.toolName),
   toolCallId |-> IF Truthy(args.toolCallId) THEN args.toolCallId.v ELSE <<>>,
   error |-> String(err)]

\* What one run of runAfterToolCallHook did: what it threw (Undefined when it
\* returned), the invocations of runAfterToolCall (each with its event, its
\* context and what runAfterToolCall did), the promise that came back, and
\* the warnings logged.
Dispatch(threw, calls, promise, warn) ==
  [threw |-> threw, calls |-> calls, promise |-> promise, warn |-> warn]
NoDispatch == Dispatch(Undefined, <<>>, NoPromise, <<>>)

\* runAfterToolCallHook without the try/catch of lines 34 and 54-57: a
\* runAfterToolCall that throws makes it throw.
runAfterToolCallHookWithoutCatch(args, runner, behaviour) ==
  IF HasHooksThrows(runner)
    THEN Dispatch(HasHooksError, <<>>, NoPromise, <<>>)
  ELSE IF HasNoHooks(runner)
    THEN Dispatch(Undefined, <<>>, NoPromise, <<>>)
  ELSE
    LET invocation ==
          <<[event |-> AfterToolCallEvent(args),
             context |-> AfterToolCallContext(args),
             did |-> behaviour]>>
    IN CASE behaviour = "promise" ->
              Dispatch(Undefined, invocation, Pending, <<>>)
         [] behaviour = "throws" ->
              Dispatch(HookError, invocation, NoPromise, <<>>)
         [] behaviour = "nonpromise" ->
              Dispatch(CatchTypeError, invocation, NoPromise, <<>>)

\* runAfterToolCallHook with the invocation put off to a later task: when it
\* returns, runAfterToolCall has not been invoked yet.
runAfterToolCallHookDeferred(args, runner, behaviour) ==
  IF HasHooksThrows(runner)
    THEN Dispatch(HasHooksError, <<>>, NoPromise, <<>>)
    ELSE Dispatch(Undefined, <<>>, NoPromise, <<>>)

\* runAfterToolCallHook with a catch that invokes runAfterToolCall a second
\* time before it gives up and logs.
runAfterToolCallHookRetrying(args, runner, behaviour) ==
  IF HasHooksThrows(runner)
    THEN Dispatch(HasHooksError, <<>>, NoPromise, <<>>)
  ELSE IF HasNoHooks(runner)
    THEN Dispatch(Undefined, <<>>, NoPromise, <<>>)
  ELSE
    LET invocation ==
          <<[event |-> AfterToolCallEvent(args),
             context |-> AfterToolCallContext(args),
             did |-> behaviour]>>
    IN CASE behaviour = "promise" ->
              Dispatch(Undefined, invocation, Pending, <<>>)
         [] behaviour = "throws" ->
              Dispatch(Undefined, invocation \o invocation, NoPromise,
                       <<HookWarning(args, HookError)>>)
         [] behaviour = "nonpromise" ->
              Dispatch(Undefined, invocation \o invocation, NoPromise,
                       <<HookWarning(args, CatchTypeError)>>)

\* Lines 18-58.  behaviour is what runAfterToolCall does if it is invoked.
runAfterToolCallHook(args, runner, behaviour) ==
  IF HasHooksThrows(runner)
    THEN Dispatch(HasHooksError, <<>>, NoPromise, <<>>)
  ELSE IF HasNoHooks(runner)
    THEN Dispatch(Undefined, <<>>, NoPromise, <<>>)
  ELSE
    LET invocation ==
          <<[event |-> AfterToolCallEvent(args),
             context |-> AfterToolCallContext(args),
             did |-> behaviour]>>
    IN CASE behaviour = "promise" ->
              Dispatch(Undefined, invocation, Pending, <<>>)
         [] behaviour = "throws" ->
              Dispatch(Undefined, invocation, NoPromise,
                       <<HookWarning(args, HookError)>>)
         [] behaviour = "nonpromise" ->
              Dispatch(Undefined, invocation, NoPromise,
                       <<HookWarning(args, CatchTypeError)>>)

\* ------------------------------------------------------ the wrapped execute

\* A wrapper that forwards only the call id and the params.
UnderlyingArgsWithoutSignal(args) ==
  <<args.toolCallId, args.params, Undefined, Undefined>>

\* Line 74: the arguments handed to the tool's own execute.
UnderlyingArgs(args) ==
  <<args.toolCallId, args.params, args.signal, args.onUpdate>>

\* Line 77
CapturedError(err) == Str(String(err))

\* A check for one of the two markers only.
IsBlockedOneMarker(error) == Includes(error.v, BlockedByPluginHook)

\* Line 81
IsBlocked(error) ==
  Includes(error.v, BlockedByPluginHook) \/ Includes(error.v, ToolCallBlocked)

\* Lines 73-84: the locals once the awaited execute has settled.
LocalsAfter(loc, settled) ==
  IF settled.state = "fulfilled"
    THEN [loc EXCEPT !.result = settled.value]
    ELSE [loc EXCEPT !.error = CapturedError(settled.value),
                     !.blocked = IsBlocked(CapturedError(settled.value))]

\* A catch that throws a new Error made of the captured string.
CompletionWrappingError(loc, settled) ==
  IF settled.state = "fulfilled"
    THEN Fulfilled(loc.result)
    ELSE Rejected(Err(loc.error.v))

\* Lines 75 and 84: return result, or throw err.
Completion(loc, settled) ==
  IF settled.state = "fulfilled"
    THEN Fulfilled(loc.result)
    ELSE Rejected(settled.value)

\* Line 86
Dispatches(loc) == ~loc.blocked

\* The subtraction the wrong way round.
DurationMsReversed(startMs, endMs) == startMs - endMs

\* Line 87
DurationMs(startMs, endMs) == endMs - startMs

\* The params kept in one variable that all calls share, not in a local of
\* each call: a call that finishes reports the params of the highest slot
\* that has been called so far.
HookArgsSharedParams(loc, execute, endMs) ==
  LET started == {d \in CallIds : pc[d] \in {"awaiting", "settled", "done"}}
      last == CHOOSE d \in started : \A e \in started : e <= d
  IN [toolName |-> execute.toolName,
      params |-> IF started = {} THEN loc.args.params
                                 ELSE call[last].args.params,
      result |-> loc.result,
      error |-> loc.error,
      durationMs |-> DurationMs(loc.startMs, endMs),
      toolCallId |-> loc.args.toolCallId,
      ctx |-> execute.ctx]

\* Lines 88-96: the arguments of runAfterToolCallHook.
HookArgs(loc, execute, endMs) ==
  [toolName |-> execute.toolName,
   params |-> loc.args.params,
   result |-> loc.result,
   error |-> loc.error,
   durationMs |-> DurationMs(loc.startMs, endMs),
   toolCallId |-> loc.args.toolCallId,
   ctx |-> execute.ctx]

\* A wrapper that waits for the promise of runAfterToolCall before it
\* settles.
FinallyOutcomeAwaitingHook(completion, dispatch) ==
  IF dispatch.threw # Undefined THEN Rejected(dispatch.threw)
  ELSE IF dispatch.promise.state = "pending" THEN Pending
  ELSE completion

\* Lines 85-98: a finally block that throws replaces the completion of the
\* try/catch; one that ends normally keeps it.  The call of
\* runAfterToolCallHook is not awaited.
FinallyOutcome(completion, dispatch) ==
  IF dispatch.threw # Undefined THEN Rejected(dispatch.threw) ELSE completion

\* ----------------------------------------------------------------- actions

\* The tool object once wrapToolWithAfterToolCallHook has returned, had the
\* function set execute on the tool itself.
ToolAfterWrapInPlace(t, ctx) ==
  IF t.execute = NoExecute
    THEN t
    ELSE [t EXCEPT !.execute = WrapperExecute(OrElse(t.name, FallbackName), ctx)]

\* Lines 60-67: the tool object once wrapToolWithAfterToolCallHook has
\* returned.  The function reads tool.execute and tool.name and spreads the
\* tool into a new object; it assigns nothing to the tool.
ToolAfterWrap(t, ctx) == t

\* wrapToolWithAfterToolCallHook(t, ctx) is called for slot c.
Wrap(c, t, ctx) ==
  /\ pc[c] = "new"
  /\ wrapArgs' = [wrapArgs EXCEPT ![c] = [tool |-> t, ctx |-> ctx]]
  /\ tool' = [tool EXCEPT ![c] = ToolAfterWrap(t, ctx)]
  /\ wrapped' = [wrapped EXCEPT ![c] = wrapToolWithAfterToolCallHook(t, ctx)]
  /\ pc' = [pc EXCEPT ![c] = "wrapped"]
  /\ UNCHANGED <<now, hookRunner, call, underlying, hook, outcome, warnLog,
                 hooksAtCall>>

\* A continuation that dispatches to the runner as it was when the call
\* started, not as it is when the tool's own execute has settled.
FinishRunnerAtCallStart(c, loc, settled, behaviour) ==
  LET after == LocalsAfter(loc, settled)
      runner == IF hooksAtCall[c] THEN [present |-> TRUE, hasHooks |-> "true"]
                                  ELSE NoRunner
      dispatch ==
        IF Dispatches(after)
          THEN runAfterToolCallHook(
                 HookArgs(after, wrapped[c].execute, now), runner, behaviour)
          ELSE NoDispatch
  IN /\ call' = [call EXCEPT ![c] = after]
     /\ hook' = [hook EXCEPT ![c] =
                   [calls |-> dispatch.calls, promise |-> dispatch.promise,
                    runner |-> hookRunner, ran |-> Dispatches(after)]]
     /\ warnLog' = [warnLog EXCEPT ![c] = @ \o dispatch.warn]
     /\ outcome' = [outcome EXCEPT ![c] =
                      FinallyOutcome(Completion(after, settled), dispatch)]
     /\ pc' = [pc EXCEPT ![c] = "done"]

\* The continuation of the wrapped execute from the point where the tool's
\* own execute has settled (lines 74-98), run to its end: the catch, the
\* finally with its dispatch, and the settling of the returned promise.
Finish(c, loc, settled, behaviour) ==
  LET after == LocalsAfter(loc, settled)
      dispatch ==
        IF Dispatches(after)
          THEN runAfterToolCallHook(
                 HookArgs(after, wrapped[c].execute, now), hookRunner, behaviour)
          ELSE NoDispatch
  IN /\ call' = [call EXCEPT ![c] = after]
     /\ hook' = [hook EXCEPT ![c] =
                   [calls |-> dispatch.calls, promise |-> dispatch.promise,
                    runner |-> hookRunner, ran |-> Dispatches(after)]]
     /\ warnLog' = [warnLog EXCEPT ![c] = @ \o dispatch.warn]
     /\ outcome' = [outcome EXCEPT ![c] =
                      FinallyOutcome(Completion(after, settled), dispatch)]
     /\ pc' = [pc EXCEPT ![c] = "done"]

\* The wrapped execute is called (lines 68-74): it reads the clock, calls
\* the tool's own execute and awaits what it returned.
Call(c, args) ==
  /\ pc[c] = "wrapped"
  /\ wrapped[c].execute.fn = "afterToolCallWrapper"
  /\ call' = [call EXCEPT ![c] = Locals(args, now)]
  /\ underlying' = [underlying EXCEPT ![c] =
                      [calls |-> Append(@.calls, UnderlyingArgs(args)),
                       promise |-> Pending]]
  /\ outcome' = [outcome EXCEPT ![c] = Pending]
  /\ pc' = [pc EXCEPT ![c] = "awaiting"]
  /\ hooksAtCall' = [hooksAtCall EXCEPT ![c] = ~HasNoHooks(hookRunner)
                                               /\ ~HasHooksThrows(hookRunner)]
  /\ UNCHANGED <<now, hookRunner, tool, wrapped, wrapArgs, hook, warnLog>>

\* The wrapped execute is called and the tool's own execute throws err
\* before returning: the catch and the finally run at once.
CallThrows(c, args, err, behaviour) ==
  /\ pc[c] = "wrapped"
  /\ wrapped[c].execute.fn = "afterToolCallWrapper"
  /\ underlying' = [underlying EXCEPT ![c] =
                      [calls |-> Append(@.calls, UnderlyingArgs(args)),
                       promise |-> Rejected(err)]]
  /\ Finish(c, Locals(args, now), Rejected(err), behaviour)
  /\ hooksAtCall' = [hooksAtCall EXCEPT ![c] = ~HasNoHooks(hookRunner)
                                               /\ ~HasHooksThrows(hookRunner)]
  /\ UNCHANGED <<now, hookRunner, tool, wrapped, wrapArgs>>

\* The promise of the tool's own execute resolves.
ExecuteResolves(c, value) ==
  /\ pc[c] = "awaiting"
  /\ underlying' = [underlying EXCEPT ![c].promise = Fulfilled(value)]
  /\ pc' = [pc EXCEPT ![c] = "settled"]
  /\ UNCHANGED <<now, hookRunner, tool, wrapped, wrapArgs, hooksAtCall, call,
                 hook, outcome, warnLog>>

\* The promise of the tool's own execute rejects.
ExecuteRejects(c, err) ==
  /\ pc[c] = "awaiting"
  /\ underlying' = [underlying EXCEPT ![c].promise = Rejected(err)]
  /\ pc' = [pc EXCEPT ![c] = "settled"]
  /\ UNCHANGED <<now, hookRunner, tool, wrapped, wrapArgs, hooksAtCall, call,
                 hook, outcome, warnLog>>

\* The await of line 74 resumes.
Resume(c, behaviour) ==
  /\ pc[c] = "settled"
  /\ Finish(c, call[c], underlying[c].promise, behaviour)
  /\ UNCHANGED <<now, hookRunner, tool, wrapped, wrapArgs, hooksAtCall,
                 underlying>>

\* The promise runAfterToolCall returned resolves.
HookResolves(c) ==
  /\ hook[c].promise.state = "pending"
  /\ hook' = [hook EXCEPT ![c].promise = Fulfilled(Undefined)]
  /\ UNCHANGED <<now, hookRunner, tool, wrapped, wrapArgs, hooksAtCall, pc,
                 call, underlying, outcome, warnLog>>

\* The promise runAfterToolCall returned rejects: the handler of lines 50-53
\* logs a warning.
HookRejects(c) ==
  /\ hook[c].promise.state = "pending"
  /\ hook' = [hook EXCEPT ![c].promise = Rejected(HookError)]
  /\ warnLog' = [warnLog EXCEPT ![c] =
                   Append(@, HookWarning(
                     HookArgs(call[c], wrapped[c].execute, now), HookError))]
  /\ UNCHANGED <<now, hookRunner, tool, wrapped, wrapArgs, hooksAtCall, pc,
                 call, underlying, outcome>>

\* Time passes.
Tick ==
  /\ now < MaxClock
  /\ now' = now + 1
  /\ UNCHANGED <<hookRunner, tool, wrapped, wrapArgs, hooksAtCall, pc, call,
                 underlying, hook, outcome, warnLog>>

\* The process-wide hook runner is set, replaced or cleared, or its hooks
\* are registered or removed.
SetHookRunner(runner) ==
  /\ runner # hookRunner
  /\ hookRunner' = runner
  /\ UNCHANGED <<now, tool, wrapped, wrapArgs, hooksAtCall, pc, call,
                 underlying, hook, outcome, warnLog>>

\* No other slot is in use.
Alone(c) == \A d \in CallIds \ {c} : pc[d] = "new"

\* One tool is wrapped and called once, with every input.
Next ==
  \/ \E c \in CallIds, t \in Tools, ctx \in Contexts : Alone(c) /\ Wrap(c, t, ctx)
  \/ \E c \in CallIds, args \in CallArgs : Call(c, args)
  \/ \E c \in CallIds, args \in CallArgs, err \in ToolErrors,
        behaviour \in HookBehaviours : CallThrows(c, args, err, behaviour)
  \/ \E c \in CallIds, value \in ToolResults : ExecuteResolves(c, value)
  \/ \E c \in CallIds, err \in ToolErrors : ExecuteRejects(c, err)
  \/ \E c \in CallIds, behaviour \in HookBehaviours : Resume(c, behaviour)
  \/ \E c \in CallIds : HookResolves(c)
  \/ \E c \in CallIds : HookRejects(c)
  \/ Tick
  \/ \E runner \in HookRunners : SetHookRunner(runner)

Spec == Init /\ [][Next]_vars

\* --------------------------------------------------------- concurrent calls

\* Several tools are wrapped and their calls are in flight together: every
\* slot is used, and the steps of different calls interleave freely.  The
\* inputs are a few of those above, enough to tell the calls apart.
ConcurrentWraps ==
  { <<[id |-> "tool", name |-> Str(<<"e", "x", "e", "c">>), label |-> "Label",
       execute |-> OriginalExecute],
      Ctx(Str(<<"main">>), Str(<<"main">>))>>,
    <<[id |-> "tool", name |-> Str(<<"R", "e", "A", "d">>), label |-> "Label",
       execute |-> OriginalExecute],
      NoCtx>> }
ConcurrentArgs ==
  [toolCallId : {Str(<<"call-1">>)},
   params : {Obj("p1"), Str(<<"not-an-object">>)},
   signal : {Undefined}, onUpdate : {Undefined}]
ConcurrentErrors ==
  { Err(<<"command", "failed">>), Str(<<"Tool", "call", "blocked">>) }
ConcurrentRunners == { NoRunner, [present |-> TRUE, hasHooks |-> "true"] }
ConcurrentBehaviours == { "promise", "throws" }

InitConcurrent == Init /\ hookRunner \in ConcurrentRunners

NextConcurrent ==
  \/ \E c \in CallIds, w \in ConcurrentWraps : Wrap(c, w[1], w[2])
  \/ \E c \in CallIds, args \in ConcurrentArgs : Call(c, args)
  \/ \E c \in CallIds, args \in ConcurrentArgs, err \in ConcurrentErrors,
        behaviour \in ConcurrentBehaviours : CallThrows(c, args, err, behaviour)
  \/ \E c \in CallIds, value \in ToolResults : ExecuteResolves(c, value)
  \/ \E c \in CallIds, err \in ConcurrentErrors : ExecuteRejects(c, err)
  \/ \E c \in CallIds, behaviour \in ConcurrentBehaviours : Resume(c, behaviour)
  \/ \E c \in CallIds : HookResolves(c)
  \/ \E c \in CallIds : HookRejects(c)
  \/ Tick
  \/ \E runner \in ConcurrentRunners : SetHookRunner(runner)

SpecConcurrent == InitConcurrent /\ [][NextConcurrent]_vars

\* ------------------------------------------------------------------ claims

Done(c) == pc[c] = "done"
\* The tool's own execute of call c resolved, or failed.
Succeeded(c) == underlying[c].promise.state = "fulfilled"
Failed(c) == underlying[c].promise.state = "rejected"
\* When call c finished, a hook runner was in place whose
\* hasHooks("after_tool_call") returned true, or returned false.
HooksExist(c) == hook[c].runner.present /\ hook[c].runner.hasHooks = "true"
NoHooksRegistered(c) ==
  hook[c].runner.present /\ hook[c].runner.hasHooks = "false"
\* The arguments the caller passed to the wrapped execute.
CallerArgs(c) ==
  <<call[c].args.toolCallId, call[c].args.params, call[c].args.signal,
    call[c].args.onUpdate>>

\* C1: with no after_tool_call hook registered (hasHooks returns false), a
\* wrapped call is transparent: it settles as the tool's own execute did,
\* that execute was called exactly once, with exactly the caller's
\* arguments, and runAfterToolCall was not invoked.
C1_TransparentWithoutHooks ==
  \A c \in CallIds :
    (Done(c) /\ NoHooksRegistered(c)) =>
      /\ outcome[c] = underlying[c].promise
      /\ underlying[c].calls = <<CallerArgs(c)>>
      /\ hook[c].calls = <<>>

C1_Witness ==
  \E c \in CallIds :
    /\ Done(c) /\ NoHooksRegistered(c)
    /\ outcome[c] = Fulfilled(Obj("r1"))
    /\ call[c].args.signal = Obj("signal")
    /\ Len(underlying[c].calls) = 1

MessageOf(err) == err.v

\* C3 (as claimed): when the tool's own execute fails with a failure that is
\* not classified as blocked, while hooks exist, runAfterToolCall is invoked
\* exactly once, with an error string that contains the failure's message
\* and no result.
C3_FailureDispatchedWithMessage ==
  \A c \in CallIds :
    (Done(c) /\ Failed(c) /\ ~call[c].blocked /\ HooksExist(c)) =>
      /\ Len(hook[c].calls) = 1
      /\ hook[c].calls[1].event.error.t = "string"
      /\ Includes(hook[c].calls[1].event.error.v,
                  MessageOf(underlying[c].promise.value))
      /\ hook[c].calls[1].event.result = Undefined

\* The error's string description contains one of the two markers.
HasBlockedMarker(err) ==
  \/ Includes(String(err), <<"blocked", "by", "plugin", "hook">>)
  \/ Includes(String(err), <<"Tool", "call", "blocked">>)

\* C4: when the tool's own execute fails with an error whose string
\* description contains "blocked by plugin hook" or "Tool call blocked",
\* runAfterToolCall is not invoked, whatever the hook runner, and the
\* wrapped execute rejects with the original error.
C4_BlockedNeverDispatched ==
  \A c \in CallIds :
    (Done(c) /\ Failed(c) /\ HasBlockedMarker(underlying[c].promise.value)) =>
      /\ hook[c].calls = <<>>
      /\ ~hook[c].ran
      /\ outcome[c] = Rejected(underlying[c].promise.value)

C4_Witness ==
  \E c \in CallIds :
    /\ Done(c) /\ HooksExist(c)
    /\ underlying[c].promise = Rejected(Str(<<"Tool", "call", "blocked">>))
    /\ hook[c].calls = <<>>
    /\ outcome[c] = Rejected(Str(<<"Tool", "call", "blocked">>))

\* C5: the dispatch is fire-and-forget: while the promise runAfterToolCall
\* returned is pending (and it may stay so for ever), the wrapped execute
\* has settled, as the tool's own execute did.
C5_FireAndForget ==
  \A c \in CallIds :
    hook[c].promise.state = "pending" =>
      /\ outcome[c].state \in {"fulfilled", "rejected"}
      /\ outcome[c] = underlying[c].promise

C5_Witness ==
  \E c \in CallIds :
    /\ hook[c].promise.state = "pending"
    /\ Len(hook[c].calls) = 1
    /\ outcome[c] = Fulfilled(Obj("r1"))

\* The dispatch of call c failed: runAfterToolCall was invoked and threw,
\* or the promise it returned rejected.
DispatchFailed(c) ==
  /\ hook[c].calls # <<>>
  /\ \/ hook[c].calls[1].did \in {"throws", "nonpromise"}
     \/ hook[c].promise.state = "rejected"

\* C6: a dispatch failure does not alter the caller's outcome: when
\* runAfterToolCall throws (or returns no promise, so that `.catch` throws),
\* or returns a promise that rejects, the wrapped execute settles as the
\* tool's own execute did, never with the failure of the dispatch, and the
\* failure is logged.
C6_DispatchFailureIsolated ==
  \A c \in CallIds :
    DispatchFailed(c) =>
      /\ outcome[c] = underlying[c].promise
      /\ outcome[c].value \notin {HookError, CatchTypeError}
      /\ warnLog[c] # <<>>

C6_Witness ==
  \E c \in CallIds :
    /\ hook[c].promise.state = "rejected"
    /\ warnLog[c] # <<>>
    /\ outcome[c] = Rejected(Err(<<"command", "failed">>))

C6_WitnessSync ==
  \E c \in CallIds :
    /\ hook[c].calls # <<>>
    /\ hook[c].promise.state = "none"
    /\ warnLog[c] # <<>>
    /\ outcome[c] = Fulfilled(Obj("r1"))

\* C7 (as claimed): whatever the hook runner is and does, hasHooks
\* included, the wrapped execute settles exactly as the tool's own execute
\* did.
C7_SameAsOriginalTool ==
  \A c \in CallIds : Done(c) => outcome[c] = underlying[c].promise

\* When call c finished, the hook runner was absent, or its hasHooks
\* answered (hooks absent or present), or the failure was a blocked call.
HooksAbsentOrPresent(c) ==
  \/ ~hook[c].runner.present
  \/ hook[c].runner.hasHooks \in {"false", "true"}
  \/ call[c].blocked

\* C8: when the tool's own execute fails, the wrapped execute rejects with
\* the very error the tool threw, be hooks absent or present or the call
\* blocked; the event carries only a string made from the error.
C8_ErrorPropagatedVerbatim ==
  \A c \in CallIds :
    (Done(c) /\ Failed(c) /\ HooksAbsentOrPresent(c)) =>
      /\ outcome[c] = Rejected(underlying[c].promise.value)
      /\ \A i \in DOMAIN hook[c].calls :
           /\ hook[c].calls[i].event.error.t = "string"
           /\ hook[c].calls[i].event.error =
                Str(String(underlying[c].promise.value))

C8_Witness ==
  \E c \in CallIds :
    /\ Done(c) /\ HooksExist(c)
    /\ outcome[c] = Rejected(Err(<<"command", "failed">>))
    /\ Len(hook[c].calls) = 1
    /\ hook[c].calls[1].event.error = Str(<<"Error:", "command", "failed">>)

\* C9: the event's params is an empty mapping when the caller's params is a
\* string, a number, null, undefined or an array, and the caller's params
\* itself when that is a non-null, non-array object; the tool's own execute
\* receives the caller's params unchanged.
C9_ParamsNormalised ==
  \A c \in CallIds :
    \A i \in DOMAIN hook[c].calls :
      /\ call[c].args.params.t \in
           {"string", "number", "null", "undefined", "array"}
           => hook[c].calls[i].event.params = Obj("{}")
      /\ call[c].args.params.t = "object"
           => hook[c].calls[i].event.params = call[c].args.params
      /\ underlying[c].calls[1][2] = call[c].args.params

C9_Witness ==
  \E c \in CallIds :
    /\ Len(hook[c].calls) = 1
    /\ call[c].args.params = Arr("a1")
    /\ hook[c].calls[1].event.params = Obj("{}")
    /\ underlying[c].calls[1][2] = Arr("a1")

\* Two names that differ at most in the case of their letters.
DifferOnlyInCase(a, b) ==
  /\ Len(a) = Len(b)
  /\ \A i \in 1..Len(a) :
       \/ a[i] = b[i]
       \/ <<a[i], b[i]>> \in
            { <<"R", "r">>, <<"r", "R">>, <<"E", "e">>, <<"e", "E">>,
              <<"A", "a">>, <<"a", "A">>, <<"D", "d">>, <<"d", "D">>,
              <<"X", "x">>, <<"x", "X">>, <<"C", "c">>, <<"c", "C">> }

\* C10: the tool name of a dispatched event does not depend on the case of
\* the tool's name (a tool whose name differs only in case dispatches the
\* same toolName), and normalising it again leaves it unchanged.
C10_ToolNameCaseInsensitiveIdempotent ==
  \A c \in CallIds :
    \A i \in DOMAIN hook[c].calls :
      /\ \A other \in ToolNames :
           (/\ Truthy(other) /\ Truthy(tool[c].name)
            /\ DifferOnlyInCase(other.v, tool[c].name.v))
             => EventToolName(other) = hook[c].calls[i].event.toolName
      /\ normalizeToolName(hook[c].calls[i].event.toolName)
           = hook[c].calls[i].event.toolName
      /\ EventToolName(Str(hook[c].calls[i].event.toolName))
           = hook[c].calls[i].event.toolName

C10_Witness ==
  \E c \in CallIds :
    /\ tool[c].name = Str(<<"R", "e", "A", "d">>)
    /\ Len(hook[c].calls) = 1
    /\ hook[c].calls[1].event.toolName = <<"r", "e", "a", "d">>

\* The agentId and the sessionKey of the context given when the tool of
\* slot c was wrapped; undefined when no context was given.
WrapCtxField(c, field) ==
  IF wrapArgs[c].ctx.present THEN wrapArgs[c].ctx[field] ELSE Undefined

\* C11: in every invocation of runAfterToolCall the context's toolName is
\* the event's (normalised) toolName, the context's agentId and sessionKey
\* are those of the context given at wrap time (undefined when none was
\* given), and the event carries toolName, params, result, error and
\* durationMs and nothing else.
C11_ContextMatchesEvent ==
  \A c \in CallIds :
    \A i \in DOMAIN hook[c].calls :
      LET inv == hook[c].calls[i]
      IN /\ inv.context.toolName = inv.event.toolName
         /\ inv.event.toolName =
              normalizeToolName(OrElse(wrapArgs[c].tool.name, FallbackName).v)
         /\ inv.context.agentId = WrapCtxField(c, "agentId")
         /\ inv.context.sessionKey = WrapCtxField(c, "sessionKey")
         /\ DOMAIN inv.context = {"toolName", "agentId", "sessionKey"}
         /\ DOMAIN inv.event =
              {"toolName", "params", "result", "error", "durationMs"}

C11_Witness ==
  \E c \in CallIds :
    /\ Len(hook[c].calls) = 1
    /\ wrapArgs[c].tool.name = Str(<<"R", "e", "A", "d">>)
    /\ wrapArgs[c].ctx = Ctx(Undefined, Str(<<"s1">>))
    /\ hook[c].calls[1].context.toolName = <<"r", "e", "a", "d">>
    /\ hook[c].calls[1].context.agentId = Undefined
    /\ hook[c].calls[1].context.sessionKey = Str(<<"s1">>)

C11_WitnessNoCtx ==
  \E c \in CallIds :
    /\ Len(hook[c].calls) = 1
    /\ wrapArgs[c].ctx = NoCtx
    /\ hook[c].calls[1].context.sessionKey = Undefined

\* C12: wrapping a tool that has no execute returns that same tool, not
\* modified, and no event is ever dispatched through it: it cannot be
\* called, and runAfterToolCall is never invoked for it.
C12_NoExecuteReturnedAsIs ==
  \A c \in CallIds :
    (pc[c] # "new" /\ wrapArgs[c].tool.execute = NoExecute) =>
      /\ wrapped[c] = wrapArgs[c].tool
      /\ tool[c] = wrapArgs[c].tool
      /\ pc[c] = "wrapped"
      /\ hook[c] = NoHook
      /\ underlying[c].calls = <<>>
      /\ warnLog[c] = <<>>

C12_Witness ==
  \E c \in CallIds :
    /\ pc[c] = "wrapped"
    /\ wrapArgs[c].tool.execute = NoExecute
    /\ wrapArgs[c].ctx.present
    /\ wrapped[c].id = "tool"
    /\ hookRunner.present /\ hookRunner.hasHooks = "true"
    /\ now = MaxClock

\* C13 (as claimed): in every event dispatched to runAfterToolCall exactly
\* one of result and error is defined: result and not error when the tool
\* succeeded, error and not result when it failed; no event has both
\* defined or both undefined, whatever the tool returned or threw.
C13_ExactlyOneDefined ==
  \A c \in CallIds :
    \A i \in DOMAIN hook[c].calls :
      LET event == hook[c].calls[i].event
      IN /\ Succeeded(c) =>
              (event.result # Undefined /\ event.error = Undefined)
         /\ Failed(c) =>
              (event.error # Undefined /\ event.result = Undefined)
         /\ (event.result = Undefined) # (event.error = Undefined)

\* What does hold of every event: never both defined; a failure gives a
\* string error and no result; a success gives no error and the value the
\* tool returned, which is defined whenever that value is.
C13_NeverBothDefined ==
  \A c \in CallIds :
    \A i \in DOMAIN hook[c].calls :
      LET event == hook[c].calls[i].event
      IN /\ Succeeded(c) =>
              (event.result = underlying[c].promise.value
                 /\ event.error = Undefined)
         /\ Failed(c) =>
              (event.error.t = "string" /\ event.result = Undefined)
         /\ ~(event.result # Undefined /\ event.error # Undefined)

\* The number of invocations of runAfterToolCall made by the calls in S.
RECURSIVE EventsDispatched(_)
EventsDispatched(S) ==
  IF S = {} THEN 0
  ELSE LET c == CHOOSE d \in S : TRUE
       IN Len(hook[c].calls) + EventsDispatched(S \ {c})

\* Call c has finished, was not blocked, and hooks existed when it finished.
DueForDispatch(c) == Done(c) /\ ~call[c].blocked /\ HooksExist(c)

\* C14: when several wrapped calls are in flight together and settle in
\* any interleaving, each call that is not blocked produces exactly one
\* event of its own, with its own params, its own result or error and the
\* name and context of its own tool, never those of another call; and the
\* number of events dispatched is the number of calls, not blocked, that
\* have finished while hooks existed.
C14_ConcurrentCallsIndependent ==
  /\ \A c \in CallIds :
       /\ Done(c) => Len(hook[c].calls) = IF DueForDispatch(c) THEN 1 ELSE 0
       /\ ~Done(c) => hook[c].calls = <<>>
       /\ \A i \in DOMAIN hook[c].calls :
            LET inv == hook[c].calls[i]
            IN /\ inv.event.params = NormalizedParams(call[c].args.params)
               /\ inv.event.params = NormalizedParams(underlying[c].calls[1][2])
               /\ Succeeded(c) =>
                    /\ inv.event.result = underlying[c].promise.value
                    /\ inv.event.error = Undefined
               /\ Failed(c) =>
                    /\ inv.event.result = Undefined
                    /\ inv.event.error =
                         Str(String(underlying[c].promise.value))
               /\ inv.event.toolName =
                    normalizeToolName(
                      OrElse(wrapArgs[c].tool.name, FallbackName).v)
               /\ inv.context.toolName = inv.event.toolName
               /\ inv.context.agentId = WrapCtxField(c, "agentId")
               /\ inv.context.sessionKey = WrapCtxField(c, "sessionKey")
  /\ EventsDispatched(CallIds) =
       Cardinality({c \in CallIds : DueForDispatch(c)})

\* Two calls that were in flight together (both started at time 0 and
\* finished at time 1), one succeeding and one failing, of two tools with
\* different names, params and contexts: each has its own event.
C14_Witness ==
  \E c, d \in CallIds :
    /\ c # d /\ DueForDispatch(c) /\ DueForDispatch(d)
    /\ Succeeded(c) /\ Failed(d)
    /\ Len(hook[c].calls) = 1 /\ Len(hook[d].calls) = 1
    /\ hook[c].calls[1].event.durationMs = 1
    /\ hook[d].calls[1].event.durationMs = 1
    /\ hook[c].calls[1].event.params = Obj("p1")
    /\ hook[d].calls[1].event.params = EmptyMapping
    /\ hook[c].calls[1].event.toolName = <<"e", "x", "e", "c">>
    /\ hook[d].calls[1].event.toolName = <<"r", "e", "a", "d">>
    /\ hook[c].calls[1].context.sessionKey = Str(<<"main">>)
    /\ hook[d].calls[1].context.sessionKey = Undefined
    /\ EventsDispatched(CallIds) = 2

\* C15: a failed dispatch is never retried: within one wrapped call
\* runAfterToolCall is invoked at most once, also when it throws or when
\* its promise rejects; the failure is recovered where it happens and is
\* only logged: one warning with the failure's text, and the call settles
\* as the tool did.
C15_NoRetry ==
  \A c \in CallIds :
    /\ Len(hook[c].calls) <= 1
    /\ DispatchFailed(c) =>
         /\ Len(hook[c].calls) = 1
         /\ Len(warnLog[c]) = 1
         /\ warnLog[c][1].error \in {String(HookError), String(CatchTypeError)}
         /\ Done(c)
         /\ outcome[c] = underlying[c].promise

C15_Witness ==
  \E c \in CallIds :
    /\ Done(c) /\ Succeeded(c)
    /\ Len(hook[c].calls) = 1
    /\ hook[c].calls[1].did = "throws"
    /\ Len(warnLog[c]) = 1
    /\ warnLog[c][1].error = String(HookError)
    /\ outcome[c] = Fulfilled(Obj("r1"))

C15_WitnessRejected ==
  \E c \in CallIds :
    /\ Done(c)
    /\ hook[c].promise = Rejected(HookError)
    /\ Len(hook[c].calls) = 1
    /\ Len(warnLog[c]) = 1

\* C16: when no hook runner exists at the time a wrapped call finishes,
\* the dispatch does nothing and says nothing: runAfterToolCall is not
\* invoked, nothing is thrown and nothing is logged, and the call settles
\* as the tool's own execute did.
C16_AbsentRunnerSilent ==
  \A c \in CallIds :
    (Done(c) /\ ~hook[c].runner.present) =>
      /\ hook[c].calls = <<>>
      /\ hook[c].promise = NoPromise
      /\ warnLog[c] = <<>>
      /\ outcome[c] = underlying[c].promise

C16_Witness ==
  \E c \in CallIds :
    /\ Done(c) /\ ~hook[c].runner.present
    /\ hook[c].ran
    /\ hooksAtCall[c]
    /\ outcome[c] = Rejected(Err(<<"command", "failed">>))
    /\ hook[c].calls = <<>>

\* C17: the wrapper never mutates the tool it was given: after the wrap,
\* and however far a call of the wrapped execute has come, the original
\* tool still has the name, the execute and the other properties it was
\* given; the wrapped tool is another object with the same name and other
\* properties, and only its execute differs.
C17_OriginalToolUntouched ==
  \A c \in CallIds :
    pc[c] # "new" =>
      /\ tool[c] = wrapArgs[c].tool
      /\ wrapped[c].name = tool[c].name
      /\ wrapped[c].label = tool[c].label
      /\ DOMAIN wrapped[c] = DOMAIN tool[c]
      /\ tool[c].execute # NoExecute =>
           /\ tool[c].execute = OriginalExecute
           /\ wrapped[c].execute # tool[c].execute
           /\ wrapped[c].id # tool[c].id

C17_Witness ==
  \E c \in CallIds :
    /\ Done(c)
    /\ Len(underlying[c].calls) = 1
    /\ tool[c].execute = OriginalExecute
    /\ tool[c].name = Str(<<>>)
    /\ wrapped[c].name = Str(<<>>)
    /\ wrapped[c].execute.fn = "afterToolCallWrapper"

\* A promise that has settled.
Settled(promise) == promise.state \in {"fulfilled", "rejected"}

\* C18: runAfterToolCall is never invoked before the tool's own execute
\* has settled; and when it is invoked, that happens before the promise of
\* the wrapped execute settles: the dispatch is started in the finally
\* block and not put off, so there is no state in which the wrapped
\* execute has settled and a dispatch that is due has not been made.
C18_DispatchBetweenSettleAndReturn ==
  \A c \in CallIds :
    /\ hook[c].calls # <<>> => Settled(underlying[c].promise)
    /\ ~Settled(underlying[c].promise) =>
         (hook[c] = NoHook /\ ~Settled(outcome[c]))
    /\ (Settled(outcome[c]) /\ DueForDispatch(c)) => Len(hook[c].calls) = 1
    /\ Settled(outcome[c]) => Done(c)

\* The wrapped execute has settled, runAfterToolCall has been invoked and
\* the promise it returned is still pending.
C18_Witness ==
  \E c \in CallIds :
    /\ Settled(outcome[c]) /\ DueForDispatch(c)
    /\ Settled(underlying[c].promise)
    /\ Len(hook[c].calls) = 1
    /\ hook[c].promise = Pending

\* The tool's own execute has settled and the wrapper has not resumed yet:
\* nothing has been invoked, nothing has settled.
C18_WitnessNotYet ==
  \E c \in CallIds :
    /\ pc[c] = "settled"
    /\ Settled(underlying[c].promise)
    /\ hookRunner.present /\ hookRunner.hasHooks = "true"
    /\ hook[c].calls = <<>>
    /\ outcome[c] = Pending

\* C19 (as claimed): a call dispatches an event if and only if a runner is
\* present and its hasHooks("after_tool_call") is true when the call
\* settles.
C19_DispatchIffHooksAtSettle ==
  \A c \in CallIds :
    Done(c) => (hook[c].calls # <<>> <=> HooksExist(c))

\* C19 (amended): the hook runner and its registration are read when the
\* continuation of a wrapped call runs its finally block, not when the
\* tool is wrapped or the call starts: a call that is not blocked
\* dispatches an event if and only if a runner is present and its
\* hasHooks("after_tool_call") is true at that time, whatever the runner
\* was when the call started; a blocked call dispatches none.
C19_RunnerReadAtSettle ==
  \A c \in CallIds :
    /\ (Done(c) /\ ~call[c].blocked) =>
         (hook[c].calls # <<>> <=> HooksExist(c))
    /\ (Done(c) /\ call[c].blocked) => hook[c].calls = <<>>

\* Hooks registered while the call was in flight receive the event.
C19_Witness ==
  \E c \in CallIds :
    /\ Done(c) /\ ~call[c].blocked
    /\ ~hooksAtCall[c]
    /\ call[c].startMs = 0 /\ now = 1
    /\ HooksExist(c)
    /\ Len(hook[c].calls) = 1

\* Hooks removed while the call was in flight do not.
C19_WitnessRemoved ==
  \E c \in CallIds :
    /\ Done(c) /\ ~call[c].blocked
    /\ hooksAtCall[c]
    /\ NoHooksRegistered(c)
    /\ hook[c].calls = <<>>

\* C20: a tool whose name is empty or missing is dispatched under the
\* fallback name: the toolName of the event and of the context is the
\* normalisation of "tool", never the empty string.
C20_FallbackToolName ==
  \A c \in CallIds :
    \A i \in DOMAIN hook[c].calls :
      LET inv == hook[c].calls[i]
      IN /\ wrapArgs[c].tool.name \in {Str(<<>>), Undefined} =>
              /\ inv.event.toolName = normalizeToolName(<<"t", "o", "o", "l">>)
              /\ inv.context.toolName = normalizeToolName(<<"t", "o", "o", "l">>)
         /\ inv.event.toolName # <<>>
         /\ inv.context.toolName # <<>>

C20_Witness ==
  \E c \in CallIds :
    /\ wrapArgs[c].tool.name = Str(<<>>)
    /\ Len(hook[c].calls) = 1
    /\ hook[c].calls[1].event.toolName = <<"t", "o", "o", "l">>
    /\ hook[c].calls[1].context.toolName = <<"t", "o", "o", "l">>

C20_WitnessMissing ==
  \E c \in CallIds :
    /\ wrapArgs[c].tool.name = Undefined
    /\ Len(hook[c].calls) = 1
    /\ hook[c].calls[1].event.toolName = <<"t", "o", "o", "l">>

====
